---- MODULE Spec2Model ----
(***************************************************************************)
(* A model of the shorelark libraries:                                     *)
(*   libs/neural-network/src/lib.rs     Network, Layer, Neuron             *)
(*   libs/genetic-algorithm/src/lib.rs  GeneticAlgorithm                   *)
(*                                                                         *)
(* An f32 is a record [nan, v]: either the NaN, or the number v.  Numbers  *)
(* are integers, so that the arithmetic is exact; the draws of the random  *)
(* source are the integers of the interval [-1, 1].                        *)
(***************************************************************************)
EXTENDS Integers, Sequences, FiniteSets

\* ------------------------------------------------------------------ bounds

\* The longest topology handed to Network::random.
MaxTopology == 3
\* The largest neuron count of a topology entry, and the longest input vector.
MaxNeurons == 2
\* The largest population handed to GeneticAlgorithm::evolve.
MaxPopulation == 2

\* ------------------------------------------------------------------- f32

F(n) == [nan |-> FALSE, v |-> n]
NaN == [nan |-> TRUE, v |-> 0]
Zero == F(0)

\* input * weight
FMul(a, b) == IF a.nan \/ b.nan THEN NaN ELSE F(a.v * b.v)

\* the + of .sum::<f32>() and of self.bias + output
FAdd(a, b) == IF a.nan \/ b.nan THEN NaN ELSE F(a.v + b.v)

\* f32::max: when one argument is the NaN, the other is returned.
FMax(self, other) ==
    IF self.nan THEN other
    ELSE IF other.nan THEN self
    ELSE IF self.v > other.v THEN self ELSE other

\* ------------------------------------------------------------ random source

\* The streams of two seeds; a stream repeats its pattern.
Patterns == << <<-1, 1, 1, 0, 1, -1, 0, -1, 0, 0, 1>>, <<1, 0, -1, -1, 1>> >>
Seeds == DOMAIN Patterns

\* The k-th value (k = 0, 1, ...) of the stream of a seed.
StreamValue(seed, k) == F(Patterns[seed][(k % Len(Patterns[seed])) + 1])

\* rng.gen_range(-1.0..=1.0): one draw, and the source moved on by one.
GenRange(rng) ==
    [rng |-> [rng EXCEPT !.pos = @ + 1], val |-> StreamValue(rng.seed, rng.pos)]

\* ------------------------------------------------------------ Neuron::random

\* (0..output_size).map(|_| rng.gen_range(-1.0..=1.0)).collect(): n draws one
\* after the other, the i-th taking the value at position pos + i - 1.
DrawWeights(rng, n) ==
    [rng |-> [rng EXCEPT !.pos = @ + n],
     val |-> [i \in 1..n |-> GenRange([rng EXCEPT !.pos = @ + i - 1]).val]]

\* A variant drawing the weights before the bias.
NeuronRandomWeightsFirst(rng, output_size) ==
    LET w == DrawWeights(rng, output_size)
        b == GenRange(w.rng)
    IN  [rng |-> b.rng, val |-> [bias |-> b.val, weights |-> w.val]]

\* A variant over the range 0..=output_size.
NeuronRandomInclusive(rng, output_size) ==
    LET b == GenRange(rng)
        w == DrawWeights(b.rng, output_size + 1)
    IN  [rng |-> w.rng, val |-> [bias |-> b.val, weights |-> w.val]]

NeuronRandom(rng, output_size) ==
    LET b == GenRange(rng)
        w == DrawWeights(b.rng, output_size)
    IN  [rng |-> w.rng, val |-> [bias |-> b.val, weights |-> w.val]]

\* ------------------------------------------------------------- Layer::random

\* (0..output_neurons).map(|_| Neuron::random(rng, input_neurons)).collect()
RECURSIVE DrawNeurons(_, _, _)
DrawNeurons(rng, input_neurons, n) ==
    IF n = 0 THEN [rng |-> rng, val |-> <<>>]
    ELSE LET d == NeuronRandom(rng, input_neurons)
             rest == DrawNeurons(d.rng, input_neurons, n - 1)
         IN  [rng |-> rest.rng, val |-> <<d.val>> \o rest.val]

\* A variant with the two counts exchanged.
LayerRandomSwapped(rng, input_neurons, output_neurons) ==
    LET ns == DrawNeurons(rng, output_neurons, input_neurons)
    IN  [rng |-> ns.rng, val |-> [neurons |-> ns.val]]

\* A variant over the range 0..=output_neurons.
LayerRandomInclusive(rng, input_neurons, output_neurons) ==
    LET ns == DrawNeurons(rng, input_neurons, output_neurons + 1)
    IN  [rng |-> ns.rng, val |-> [neurons |-> ns.val]]

LayerRandom(rng, input_neurons, output_neurons) ==
    LET ns == DrawNeurons(rng, input_neurons, output_neurons)
    IN  [rng |-> ns.rng, val |-> [neurons |-> ns.val]]

\* ----------------------------------------------------------- Network::random

\* layers.windows(2).map(|layers| Layer::random(rng, layers[0].neurons,
\* layers[1].neurons)).collect(), from the window starting at entry k.
RECURSIVE DrawLayers(_, _, _)
DrawLayers(rng, layers, k) ==
    IF k + 1 > Len(layers) THEN [rng |-> rng, val |-> <<>>]
    ELSE LET d == LayerRandom(rng, layers[k], layers[k + 1])
             rest == DrawLayers(d.rng, layers, k + 1)
         IN  [rng |-> rest.rng, val |-> <<d.val>> \o rest.val]

\* A variant asserting layers.len() > 0.
NetworkRandomNonEmpty(rng, layers) ==
    IF ~(Len(layers) > 0) THEN [ok |-> FALSE, rng |-> rng, val |-> [layers |-> <<>>]]
    ELSE LET ls == DrawLayers(rng, layers, 1)
         IN  [ok |-> TRUE, rng |-> ls.rng, val |-> [layers |-> ls.val]]

\* ok = FALSE: the assertion failed, nothing was drawn and nothing was built.
NetworkRandom(rng, layers) ==
    IF ~(Len(layers) > 1) THEN [ok |-> FALSE, rng |-> rng, val |-> [layers |-> <<>>]]
    ELSE LET ls == DrawLayers(rng, layers, 1)
         IN  [ok |-> TRUE, rng |-> ls.rng, val |-> [layers |-> ls.val]]

\* Network { layers: vec![...] } of layers built one by one, as the module's
\* tests build them: shape[k] = <<input_neurons, output_neurons>> of layer k.
RECURSIVE LiteralLayers(_, _, _)
LiteralLayers(rng, shape, k) ==
    IF k > Len(shape) THEN [rng |-> rng, val |-> <<>>]
    ELSE LET d == LayerRandom(rng, shape[k][1], shape[k][2])
             rest == LiteralLayers(d.rng, shape, k + 1)
         IN  [rng |-> rest.rng, val |-> <<d.val>> \o rest.val]

\* --------------------------------------------------------- Neuron::propagate

Min(a, b) == IF a < b THEN a ELSE b

\* inputs.iter().zip(&self.weights).map(|(input, weight)| input * weight)
\* .sum::<f32>(), over the first n pairs, added from the left.
RECURSIVE SumProducts(_, _, _)
SumProducts(inputs, weights, n) ==
    IF n = 0 THEN Zero
    ELSE FAdd(SumProducts(inputs, weights, n - 1), FMul(inputs[n], weights[n]))

\* A variant without the assertion on the lengths.
NeuronPropagateUnchecked(neuron, inputs) ==
    LET output == SumProducts(inputs, neuron.weights,
                              Min(Len(inputs), Len(neuron.weights)))
    IN  [ok |-> TRUE, val |-> FMax(FAdd(neuron.bias, output), Zero)]

\* A variant without the .max(0.0).
NeuronPropagateNoMax(neuron, inputs) ==
    IF Len(inputs) # Len(neuron.weights) THEN [ok |-> FALSE, val |-> Zero]
    ELSE LET output == SumProducts(inputs, neuron.weights,
                                   Min(Len(inputs), Len(neuron.weights)))
         IN  [ok |-> TRUE, val |-> FAdd(neuron.bias, output)]

\* A variant that leaves the bias out.
NeuronPropagateNoBias(neuron, inputs) ==
    IF Len(inputs) # Len(neuron.weights) THEN [ok |-> FALSE, val |-> Zero]
    ELSE LET output == SumProducts(inputs, neuron.weights,
                                   Min(Len(inputs), Len(neuron.weights)))
         IN  [ok |-> TRUE, val |-> FMax(output, Zero)]

\* ok = FALSE: assert_eq!(inputs.len(), self.weights.len()) failed.
NeuronPropagate(neuron, inputs) ==
    IF Len(inputs) # Len(neuron.weights) THEN [ok |-> FALSE, val |-> Zero]
    ELSE LET output == SumProducts(inputs, neuron.weights,
                                   Min(Len(inputs), Len(neuron.weights)))
         IN  [ok |-> TRUE, val |-> FMax(FAdd(neuron.bias, output), Zero)]

\* ---------------------------------------------------------- Layer::propagate

\* self.neurons.iter().map(|neuron| neuron.propagate(&inputs)).collect():
\* a neuron's failed assertion ends the call.
LayerPropagate(layer, inputs) ==
    LET outs == [j \in 1..Len(layer.neurons) |->
                    NeuronPropagate(layer.neurons[j], inputs)]
    IN  IF \E j \in 1..Len(layer.neurons) : ~outs[j].ok
        THEN [ok |-> FALSE, val |-> <<>>]
        ELSE [ok |-> TRUE, val |-> [j \in 1..Len(layer.neurons) |-> outs[j].val]]

\* ------------------------------------------------- GeneticAlgorithm::evolve

\* (0..n).map(|_| todo!()).collect(): the first slot's todo!() ends the call.
EvolveSlots(n) ==
    IF n = 0 THEN [ok |-> TRUE, val |-> <<>>] ELSE [ok |-> FALSE, val |-> <<>>]

\* A variant without the assertion on the population.
EvolveUnchecked(population) == EvolveSlots(Len(population))

\* ok = FALSE: assert!(!population.is_empty()) or todo!() ended the call.
Evolve(population) ==
    IF Len(population) = 0 THEN [ok |-> FALSE, val |-> <<>>]
    ELSE EvolveSlots(Len(population))

\* -------------------------------------------------------------------- state

VARIABLES
    pc,          \* "idle", "built", "propagating", "returned", "panicked"
    call,        \* the call that is running or has ended; "none" before any
    rng,         \* the random source: [seed, pos], pos draws consumed
    topology,    \* the topology handed to Network::random
    origin,      \* "random": built by Network::random; "literal"; "none"
    network,     \* the Network: [layers |-> << [neurons |-> << [bias, weights] >>] >>]
    inputs,      \* the vector handed to Network::propagate
    acc,         \* the accumulator of propagate's fold
    layerIdx,    \* the layer the fold applies next
    output,      \* the vector propagate returned
    population,  \* the population handed to evolve
    evolved      \* the population evolve returned

vars == <<pc, call, rng, topology, origin, network, inputs, acc, layerIdx,
          output, population, evolved>>

\* ------------------------------------------------------------------- inputs

SeqsUpTo(S, n) == UNION {[1..m -> S] : m \in 0..n}

Topologies == SeqsUpTo(0..MaxNeurons, MaxTopology)

\* A literal network has one or two layers, each of any two counts.
Shapes == UNION {[1..m -> (0..MaxNeurons) \X (0..MaxNeurons)] : m \in {1, 2}}

\* The input vectors: every length up to MaxNeurons, filled by repeating a
\* pattern of negative, positive and NaN elements.
InputPatterns ==
    { <<F(-2)>>, <<F(1)>>, <<NaN>>, <<F(-2), F(1)>>, <<F(1), NaN, F(-2)>> }

InputVectors ==
    { [i \in 1..n |-> p[((i - 1) % Len(p)) + 1]] :
          n \in 0..MaxNeurons, p \in InputPatterns }

Individuals == {"a", "b"}

Populations == SeqsUpTo(Individuals, MaxPopulation)

\* --------------------------------------------------------------------- Init

Init ==
    /\ pc = "idle"
    /\ call = "none"
    /\ rng \in {[seed |-> s, pos |-> 0] : s \in Seeds}
    /\ topology = <<>>
    /\ origin = "none"
    /\ network = [layers |-> <<>>]
    /\ inputs = <<>>
    /\ acc = <<>>
    /\ layerIdx = 0
    /\ output = <<>>
    /\ population = <<>>
    /\ evolved = <<>>

\* ------------------------------------------------------------------ actions

\* Network::random(rng, layers)
Random(layers) ==
    /\ pc = "idle"
    /\ LET r == NetworkRandom(rng, layers)
       IN  /\ pc' = IF r.ok THEN "built" ELSE "panicked"
           /\ rng' = r.rng
           /\ network' = r.val
           /\ origin' = IF r.ok THEN "random" ELSE "none"
    /\ call' = "random"
    /\ topology' = layers
    /\ UNCHANGED <<inputs, acc, layerIdx, output, population, evolved>>

\* Network { layers: vec![Layer::random(..), ...] }
Literal(shape) ==
    /\ pc = "idle"
    /\ LET r == LiteralLayers(rng, shape, 1)
       IN  /\ rng' = r.rng
           /\ network' = [layers |-> r.val]
    /\ pc' = "built"
    /\ call' = "literal"
    /\ origin' = "literal"
    /\ UNCHANGED <<topology, inputs, acc, layerIdx, output, population, evolved>>

\* network.propagate(inputs): the fold starts from the inputs.
Propagate(v) ==
    /\ pc = "built"
    /\ pc' = "propagating"
    /\ call' = "propagate"
    /\ inputs' = v
    /\ acc' = v
    /\ layerIdx' = 1
    /\ UNCHANGED <<rng, topology, origin, network, output, population, evolved>>

\* One step of the fold: |inputs, layer| layer.propagate(inputs)
PropagateLayer ==
    /\ pc = "propagating"
    /\ layerIdx <= Len(network.layers)
    /\ LET r == LayerPropagate(network.layers[layerIdx], acc)
       IN  IF r.ok
           THEN /\ acc' = r.val
                /\ layerIdx' = layerIdx + 1
                /\ pc' = pc
           ELSE /\ pc' = "panicked"
                /\ UNCHANGED <<acc, layerIdx>>
    /\ UNCHANGED <<call, rng, topology, origin, network, inputs, output,
                   population, evolved>>

\* The fold is over: its accumulator is the result.
PropagateReturn ==
    /\ pc = "propagating"
    /\ layerIdx > Len(network.layers)
    /\ pc' = "returned"
    /\ output' = acc
    /\ UNCHANGED <<call, rng, topology, origin, network, inputs, acc, layerIdx,
                   population, evolved>>

\* GeneticAlgorithm::new().evolve(&population)
EvolveCall(p) ==
    /\ pc = "idle"
    /\ LET r == Evolve(p)
       IN  /\ pc' = IF r.ok THEN "returned" ELSE "panicked"
           /\ evolved' = r.val
    /\ call' = "evolve"
    /\ population' = p
    /\ UNCHANGED <<rng, topology, origin, network, inputs, acc, layerIdx, output>>

Next ==
    \/ \E layers \in Topologies : Random(layers)
    \/ \E shape \in Shapes : Literal(shape)
    \/ \E v \in InputVectors : Propagate(v)
    \/ PropagateLayer
    \/ PropagateReturn
    \/ \E p \in Populations : EvolveCall(p)

Spec == Init /\ [][Next]_vars

\* --------------------------------------------------------------- properties

\* The parameters of the layers before layer k of a network of topology T:
\* the sum over the layer pairs m < k of T[m + 1] * (T[m] + 1).
RECURSIVE ParamsBefore(_, _)
ParamsBefore(T, k) ==
    IF k <= 1 THEN 0 ELSE ParamsBefore(T, k - 1) + T[k] * (T[k - 1] + 1)

\* The position in the stream of the bias of neuron j of layer k.
BiasOffset(T, k, j) == ParamsBefore(T, k) + (j - 1) * (T[k] + 1)

\* The sum of x[i] * w[i] over the numbers, from index i on.
RECURSIVE IntSum(_, _, _)
IntSum(x, w, i) ==
    IF i > Len(w) THEN 0 ELSE x[i].v * w[i].v + IntSum(x, w, i + 1)

\* bias + sum of input_i * weight_i, over the numbers.
PreActivation(neuron, x) == neuron.bias.v + IntSum(x, neuron.weights, 1)

\* Whether a NaN enters the neuron's sum.
AnyNaN(neuron, x) ==
    \/ neuron.bias.nan
    \/ \E i \in 1..Len(neuron.weights) : x[i].nan \/ neuron.weights[i].nan

\* relu(bias + sum of input_i * weight_i); the maximum of a NaN and 0 is 0.
RefNeuron(neuron, x) ==
    IF AnyNaN(neuron, x) THEN F(0)
    ELSE IF PreActivation(neuron, x) > 0 THEN F(PreActivation(neuron, x)) ELSE F(0)

RefLayer(layer, x) ==
    [j \in 1..Len(layer.neurons) |-> RefNeuron(layer.neurons[j], x)]

\* The output of the first k layers of net on x.
RECURSIVE RefNetwork(_, _, _)
RefNetwork(net, x, k) ==
    IF k = 0 THEN x ELSE RefLayer(net.layers[k], RefNetwork(net, x, k - 1))

FirstLayerNonEmpty == Len(network.layers[1].neurons) > 0

\* C1: evolve on a non-empty population returns a population of the same size.
EvolveKeepsSize ==
    (call = "evolve" /\ Len(population) > 0)
        => (pc = "returned" /\ Len(evolved) = Len(population))

\* C2, as stated: propagate on a network built by Network::random never returns
\* for an input vector whose length differs from the first topology entry.
PropagateMismatchFails ==
    (call = "propagate" /\ origin = "random" /\ Len(inputs) # topology[1])
        => pc # "returned"

\* C2, amended: when the first layer has at least one neuron, propagate on an
\* input vector whose length differs from the weight count of the first layer's
\* neurons fails at the first layer and returns no output.
PropagateMismatchFailsNonEmpty ==
    (/\ call = "propagate"
     /\ FirstLayerNonEmpty
     /\ Len(inputs) # Len(network.layers[1].neurons[1].weights))
        => /\ pc \in {"propagating", "panicked"}
           /\ layerIdx = 1
           /\ output = <<>>

PropagateMismatchWitness ==
    /\ call = "propagate"
    /\ pc = "panicked"
    /\ FirstLayerNonEmpty
    /\ Len(inputs) # Len(network.layers[1].neurons[1].weights)
    /\ layerIdx = 1

\* C3: the fold's accumulator after k layers is the reference output of the
\* first k layers, neuron by neuron max(bias + sum input_i * weight_i, 0), and
\* the vector returned is the reference output of all the layers.
PropagateMatchesReference ==
    (call = "propagate" /\ pc \in {"propagating", "returned"})
        => /\ acc = RefNetwork(network, inputs, layerIdx - 1)
           /\ pc = "returned" =>
                  output = RefNetwork(network, inputs, Len(network.layers))

PropagateReferenceWitness ==
    /\ call = "propagate"
    /\ pc = "returned"
    /\ Len(network.layers) = 2
    /\ Len(output) = 2
    /\ output[1].v > 1
    /\ output[2] = Zero
    /\ \E i \in 1..Len(inputs) : inputs[i].v < 0

\* C4: for a network built by Network::random from T and an input of length
\* T[0].neurons, the output has as many elements as the last entry of T.
PropagateShape ==
    (/\ call = "propagate"
     /\ pc = "returned"
     /\ origin = "random"
     /\ Len(inputs) = topology[1])
        => Len(output) = topology[Len(topology)]

PropagateShapeWitness ==
    /\ call = "propagate"
    /\ pc = "returned"
    /\ origin = "random"
    /\ Len(topology) = 3
    /\ Len(inputs) = topology[1]
    /\ topology[3] # topology[1]
    /\ topology[3] # topology[2]
    /\ Len(output) = topology[3]

\* C5: every element of a vector propagate returns is a number >= 0.
PropagateNonNegative ==
    (call = "propagate" /\ pc = "returned")
        => \A j \in 1..Len(output) : ~output[j].nan /\ output[j].v >= 0

\* The floor acted: a neuron of the last layer had a negative sum.
PropagateFloorWitness ==
    /\ call = "propagate"
    /\ pc = "returned"
    /\ Len(network.layers) = 1
    /\ \E i \in 1..Len(inputs) : inputs[i].v < 0
    /\ \E j \in 1..Len(output) :
           /\ ~AnyNaN(network.layers[1].neurons[j], inputs)
           /\ PreActivation(network.layers[1].neurons[j], inputs) < 0
           /\ output[j] = Zero

\* C6: Network::random on a topology of n >= 2 entries builds n - 1 layers,
\* layer k with T[k + 1] neurons of T[k] weights each, so that a neuron has as
\* many weights as the previous layer has neurons.
RandomShape ==
    origin = "random"
        => /\ Len(topology) >= 2
           /\ Len(network.layers) = Len(topology) - 1
           /\ \A k \in 1..Len(network.layers) :
                  /\ Len(network.layers[k].neurons) = topology[k + 1]
                  /\ \A j \in 1..Len(network.layers[k].neurons) :
                         /\ Len(network.layers[k].neurons[j].weights) = topology[k]
                         /\ k > 1 =>
                                Len(network.layers[k].neurons[j].weights)
                                    = Len(network.layers[k - 1].neurons)

RandomShapeWitness ==
    /\ call = "random"
    /\ origin = "random"
    /\ Len(topology) = 3
    /\ topology[1] # topology[2]
    /\ topology[2] # topology[3]
    /\ topology[2] > 0
    /\ topology[3] > 0
    /\ Len(network.layers) = 2

\* C7: Network::random on a topology of fewer than 2 entries fails, having
\* drawn nothing from the random source and built no layer.
RandomShortTopologyFails ==
    (call = "random" /\ Len(topology) < 2)
        => /\ pc = "panicked"
           /\ rng.pos = 0
           /\ network.layers = <<>>

RandomShortTopologyWitness ==
    /\ call = "random"
    /\ Len(topology) = 1
    /\ topology[1] > 0
    /\ pc = "panicked"

\* C8: evolve on an empty population fails and returns no population.
EvolveEmptyFails ==
    (call = "evolve" /\ Len(population) = 0)
        => (pc = "panicked" /\ evolved = <<>>)

EvolveEmptyWitness ==
    /\ call = "evolve"
    /\ population = <<>>
    /\ pc = "panicked"

\* C9: Network::random draws one value per parameter, layer by layer, neuron
\* by neuron, the bias and then the weights: the parameters are the values of
\* the stream at fixed positions, and the source has moved on by the sum over
\* the layer pairs of output_count * (input_count + 1).
RandomDrawOrder ==
    origin = "random"
        => /\ rng.pos = ParamsBefore(topology, Len(topology))
           /\ \A k \in 1..Len(network.layers) :
                  \A j \in 1..Len(network.layers[k].neurons) :
                      LET neuron == network.layers[k].neurons[j]
                          at == BiasOffset(topology, k, j)
                      IN  /\ neuron.bias = StreamValue(rng.seed, at)
                          /\ \A i \in 1..Len(neuron.weights) :
                                 neuron.weights[i] = StreamValue(rng.seed, at + i)

RandomDrawOrderWitness ==
    /\ call = "random"
    /\ origin = "random"
    /\ Len(network.layers) = 2
    /\ Len(network.layers[2].neurons) = 2
    /\ Len(network.layers[2].neurons[2].weights) = 2
    /\ rng.pos = 12

\* C10: propagate on a network built by Network::random from T, on an input of
\* length T[0].neurons, never fails: at every layer the incoming vector is as
\* long as each neuron's weights.
RandomNetworkTotal ==
    (call = "propagate" /\ origin = "random" /\ Len(inputs) = topology[1])
        => /\ pc # "panicked"
           /\ (pc = "propagating" /\ layerIdx <= Len(network.layers)) =>
                  \A j \in 1..Len(network.layers[layerIdx].neurons) :
                      Len(acc) = Len(network.layers[layerIdx].neurons[j].weights)

RandomNetworkTotalWitness ==
    /\ call = "propagate"
    /\ pc = "returned"
    /\ origin = "random"
    /\ Len(topology) = 3
    /\ Len(inputs) = topology[1]
    /\ topology[1] > 0
    /\ topology[2] > topology[1]
    /\ topology[3] > 0

====
